---- MODULE Spec2Model ----
(***************************************************************************)
(* Model of visualize_stability.py: parse_data reads raw_output.txt line   *)
(* by line and keeps the lines that are "digits,digits"; main fits a       *)
(* least-squares line through the samples, annotates a chart with the      *)
(* verdict, saves the chart and prints a summary.                          *)
(*                                                                         *)
(* Text is a sequence of one-character strings.  The slope and intercept   *)
(* are kept as exact fractions <<numerator, denominator>>; <<0, 0>> is the *)
(* not-a-number value.  Floating-point rounding inside the regression is   *)
(* not modelled.  Plot calls other than the verdict label and the image    *)
(* write change nothing the program observes and are left out.             *)
(***************************************************************************)
EXTENDS Integers, Sequences, FiniteSets, TLC

VARIABLES
    file,       \* content of raw_output.txt, a sequence of characters
    pc,         \* position of control
    handle,     \* the handle f of parse_data: "none", "open" or "closed"
    pos,        \* number of characters of the file consumed by the iteration
    steps,      \* list steps
    weights,    \* list weights
    stdout,     \* what has been printed, in order
    exitCode,   \* exit status of the process, -1 while it runs
    fitted,     \* outcome of the linregress call: "none", "ok", "nan", "raised"
    slope,      \* slope returned by linregress
    intercept,  \* intercept returned by linregress
    label,      \* arguments of the plt.text call: x, y and the text
    saved       \* number of plt.savefig writes to output_file

vars == <<file, pc, handle, pos, steps, weights, stdout, exitCode, fitted,
          slope, intercept, label, saved>>

mainVars == <<stdout, exitCode, fitted, slope, intercept, label, saved>>

(***************************************************************************)
(* Bounds of the model.                                                    *)
(***************************************************************************)
\* longest file of the character-level specification SpecParse
MaxFileLen == 7
\* largest number of lines in a file of the specification Spec
MaxLines == 3

NL == "\n"

\* characters the files of SpecParse are made of
Alphabet == {"1", ",", " ", NL}

(***************************************************************************)
(* Library functions used by parse_data, modelled by what they do.         *)
(***************************************************************************)
\* the ASCII digits among what \d matches, the ASCII blanks among what
\* strip() removes
Digits == {"0", "1", "2", "3", "4", "5", "6", "7", "8", "9"}

Whitespace == {" ", "\t", NL, "\r", "\f"}

DigitVal(c) ==
    CASE c = "0" -> 0 [] c = "1" -> 1 [] c = "2" -> 2 [] c = "3" -> 3
      [] c = "4" -> 4 [] c = "5" -> 5 [] c = "6" -> 6 [] c = "7" -> 7
      [] c = "8" -> 8 [] c = "9" -> 9

RECURSIVE lstrip(_)
lstrip(s) ==
    IF s = <<>> \/ Head(s) \notin Whitespace THEN s ELSE lstrip(Tail(s))

RECURSIVE rstrip(_)
rstrip(s) ==
    IF s = <<>> \/ s[Len(s)] \notin Whitespace
    THEN s
    ELSE rstrip(SubSeq(s, 1, Len(s) - 1))

\* a strip that forgets the leading whitespace
strip_TrailingOnly(s) == rstrip(s)

\* str.strip(): drop leading and trailing whitespace
strip(s) == rstrip(lstrip(s))

\* number of consecutive digits of s from index i on (what \d+ consumes)
RECURSIVE DigitRun(_, _)
DigitRun(s, i) ==
    IF i > Len(s) \/ s[i] \notin Digits THEN 0 ELSE 1 + DigitRun(s, i + 1)

\* re.match(r'^\d+,\d+$', s): digits, a comma, digits, then the end of the
\* string ($ also matches just before a final newline)
re_match(s) ==
    LET a == DigitRun(s, 1)
        b == DigitRun(s, a + 2)
        e == a + 1 + b
    IN  /\ a >= 1
        /\ a + 1 <= Len(s)
        /\ s[a + 1] = ","
        /\ b >= 1
        /\ \/ e = Len(s)
           \/ e = Len(s) - 1 /\ s[Len(s)] = NL

\* str.split(','): the pieces between the commas
RECURSIVE split(_)
split(s) ==
    IF \A i \in 1..Len(s) : s[i] # ","
    THEN <<s>>
    ELSE LET k == CHOOSE i \in 1..Len(s) :
                      s[i] = "," /\ \A j \in 1..(i - 1) : s[j] # ","
         IN  <<SubSeq(s, 1, k - 1)>> \o split(SubSeq(s, k + 1, Len(s)))

RECURSIVE IntAcc(_, _)
IntAcc(s, acc) ==
    IF s = <<>> THEN acc ELSE IntAcc(Tail(s), 10 * acc + DigitVal(Head(s)))

\* int(s) for a string of decimal digits, surrounding whitespace ignored
int(s) == IntAcc(strip(s), 0)

\* the line the iteration over f yields at offset p: up to and including the
\* next newline, or up to the end of the file
RECURSIVE LineEnd(_, _)
LineEnd(f, i) ==
    IF i >= Len(f) \/ f[i] = NL THEN i ELSE LineEnd(f, i + 1)

NextLine(f, p) == SubSeq(f, p + 1, LineEnd(f, p + 1))

(***************************************************************************)
(* parse_data                                                              *)
(***************************************************************************)
\* with open(filename, 'r') as f: the file is there and opens
OpenFile ==
    /\ pc = "open"
    /\ handle' = "open"
    /\ pos' = 0
    /\ pc' = "loop"
    /\ UNCHANGED <<file, steps, weights, mainVars>>

\* open() raises (no such file): nothing was opened, the error propagates
OpenFail ==
    /\ pc = "open"
    /\ pc' = "raised"
    /\ UNCHANGED <<file, handle, pos, steps, weights, mainVars>>

\* an iteration that puts the new sample in front of the lists
ReadLine_Prepend ==
    /\ pc = "loop"
    /\ pos < Len(file)
    /\ LET raw == NextLine(file, pos)
           line == strip(raw)
       IN  /\ pos' = pos + Len(raw)
           /\ IF re_match(line)
              THEN LET parts == split(line)
                   IN  /\ steps' = <<int(parts[1])>> \o steps
                       /\ weights' = <<int(parts[2])>> \o weights
              ELSE UNCHANGED <<steps, weights>>
    /\ UNCHANGED <<file, pc, handle, mainVars>>

\* one iteration of "for line in f"
ReadLine ==
    /\ pc = "loop"
    /\ pos < Len(file)
    /\ LET raw == NextLine(file, pos)
           line == strip(raw)
       IN  /\ pos' = pos + Len(raw)
           /\ IF re_match(line)
              THEN LET parts == split(line)
                   IN  /\ steps' = Append(steps, int(parts[1]))
                       /\ weights' = Append(weights, int(parts[2]))
              ELSE UNCHANGED <<steps, weights>>
    /\ UNCHANGED <<file, pc, handle, mainVars>>

\* a read error that leaves f as it is, as without the with statement
ReadError_NoClose ==
    /\ pc = "loop"
    /\ pos < Len(file)
    /\ pc' = "raised"
    /\ UNCHANGED <<file, handle, pos, steps, weights, mainVars>>

\* reading the next line raises (an undecodable byte, an I/O error): the
\* with statement closes f and the error propagates
ReadError ==
    /\ pc = "loop"
    /\ pos < Len(file)
    /\ handle' = "closed"
    /\ pc' = "raised"
    /\ UNCHANGED <<file, pos, steps, weights, mainVars>>

\* the iteration is exhausted: the with statement closes f, return
EndLoop ==
    /\ pc = "loop"
    /\ pos = Len(file)
    /\ handle' = "closed"
    /\ pc' = "returned"
    /\ UNCHANGED <<file, pos, steps, weights, mainVars>>

(***************************************************************************)
(* linregress: ordinary least squares of weights against steps.            *)
(***************************************************************************)
RECURSIVE Sum(_)
Sum(s) == IF s = <<>> THEN 0 ELSE Head(s) + Sum(Tail(s))

Products(x, y) == [i \in 1..Len(x) |-> x[i] * y[i]]

\* n times the variance of x
SSxx(x) == Len(x) * Sum(Products(x, x)) - Sum(x) * Sum(x)

\* n times the covariance of x and y
SSxy(x, y) == Len(x) * Sum(Products(x, y)) - Sum(x) * Sum(y)

\* the regression has no solution: a single point, or all steps identical
Degenerate(x) == SSxx(x) = 0

\* slope = covariance(x, y) / variance(x)
OlsSlope(x, y) == <<SSxy(x, y), SSxx(x)>>

\* intercept = mean(y) - slope * mean(x)
OlsIntercept(x, y) ==
    <<Sum(y) * Sum(Products(x, x)) - Sum(x) * Sum(Products(x, y)), SSxx(x)>>

NaN == <<0, 0>>

Abs(n) == IF n < 0 THEN 0 - n ELSE n

\* the threshold 0.01 as a fraction
Threshold == <<1, 100>>

\* a comparison that lets the threshold itself pass
AbsLess_Inclusive(q, t) == q # NaN /\ Abs(q[1]) * t[2] <= t[1] * q[2]

\* abs(q) < t for fractions with non-negative denominators; a comparison
\* with not-a-number is false
AbsLess(q, t) == q # NaN /\ Abs(q[1]) * t[2] < t[1] * q[2]

Max(s) == CHOOSE m \in {s[i] : i \in 1..Len(s)} : \A i \in 1..Len(s) : s[i] <= m

(***************************************************************************)
(* main                                                                    *)
(***************************************************************************)
Say(msg, arg) == [msg |-> msg, arg |-> arg]

\* no plt.text call has been made
NoLabel == [x |-> NaN, y |-> 0, text |-> ""]

\* print("Parsing data..."), then the call of parse_data
PrintParsing ==
    /\ pc = "start"
    /\ stdout' = Append(stdout, Say("Parsing data...", <<>>))
    /\ pc' = "open"
    /\ UNCHANGED <<file, handle, pos, steps, weights, exitCode, fitted,
                   slope, intercept, label, saved>>

\* the message without the failure status
NoData_ExitZero ==
    /\ pc = "returned"
    /\ steps = <<>>
    /\ stdout' = Append(stdout, Say("No CSV data found in raw_output.txt", <<>>))
    /\ exitCode' = 0
    /\ pc' = "exited"
    /\ UNCHANGED <<file, handle, pos, steps, weights, fitted, slope,
                   intercept, label, saved>>

\* if not steps: print(...); sys.exit(1)
NoData ==
    /\ pc = "returned"
    /\ steps = <<>>
    /\ stdout' = Append(stdout, Say("No CSV data found in raw_output.txt", <<>>))
    /\ exitCode' = 1
    /\ pc' = "exited"
    /\ UNCHANGED <<file, handle, pos, steps, weights, fitted, slope,
                   intercept, label, saved>>

\* print(f"Found {len(steps)} data points."), then the two plot calls
PrintFound ==
    /\ pc = "returned"
    /\ steps # <<>>
    /\ stdout' = Append(stdout, Say("Found data points", <<Len(steps)>>))
    /\ pc' = "linregress"
    /\ UNCHANGED <<file, handle, pos, steps, weights, exitCode, fitted,
                   slope, intercept, label, saved>>

\* linregress(steps, weights) on data that determine a line
Linregress ==
    /\ pc = "linregress"
    /\ ~Degenerate(steps)
    /\ fitted' = "ok"
    /\ slope' = OlsSlope(steps, weights)
    /\ intercept' = OlsIntercept(steps, weights)
    /\ pc' = "print_trend"
    /\ UNCHANGED <<file, handle, pos, steps, weights, stdout, exitCode,
                   label, saved>>

\* linregress on degenerate data, in a library version that divides zero by
\* zero: the slope and the intercept are not-a-number
LinregressNaN ==
    /\ pc = "linregress"
    /\ Degenerate(steps)
    /\ fitted' = "nan"
    /\ slope' = NaN
    /\ intercept' = NaN
    /\ pc' = "print_trend"
    /\ UNCHANGED <<file, handle, pos, steps, weights, stdout, exitCode,
                   label, saved>>

\* linregress on degenerate data, in a library version that rejects it
LinregressRaise ==
    /\ pc = "linregress"
    /\ Degenerate(steps)
    /\ fitted' = "raised"
    /\ pc' = "raised"
    /\ UNCHANGED <<file, handle, pos, steps, weights, stdout, exitCode,
                   slope, intercept, label, saved>>

\* the two lines in the other order
PrintTrend_InterceptFirst ==
    /\ pc = "print_trend"
    /\ stdout' = stdout \o <<Say("Intercept", intercept), Say("Slope", slope)>>
    /\ pc' = "verdict"
    /\ UNCHANGED <<file, handle, pos, steps, weights, exitCode, fitted,
                   slope, intercept, label, saved>>

\* print(f"Slope: {slope}"); print(f"Intercept: {intercept}"), then the
\* trend line and the decorations of the chart
PrintTrend ==
    /\ pc = "print_trend"
    /\ stdout' = stdout \o <<Say("Slope", slope), Say("Intercept", intercept)>>
    /\ pc' = "verdict"
    /\ UNCHANGED <<file, handle, pos, steps, weights, exitCode, fitted,
                   slope, intercept, label, saved>>

\* if abs(slope) < 0.01: the label and the line "CONCLUSION: STABLE RECURSION"
VerdictStable ==
    /\ pc = "verdict"
    /\ AbsLess(slope, Threshold)
    /\ label' = [x |-> <<Len(steps), 2>>, y |-> Max(weights) + 1,
                 text |-> "CONCLUSION: STABLE RECURSION"]
    /\ stdout' = Append(stdout, Say("CONCLUSION: STABLE RECURSION", <<>>))
    /\ pc' = "savefig"
    /\ UNCHANGED <<file, handle, pos, steps, weights, exitCode, fitted,
                   slope, intercept, saved>>

\* a warning that also ends the process with status 1
VerdictGrowth_Exit ==
    /\ pc = "verdict"
    /\ ~AbsLess(slope, Threshold)
    /\ label' = [x |-> <<Len(steps), 2>>, y |-> Max(weights) + 1,
                 text |-> "WARNING: ERROR GROWTH DETECTED"]
    /\ stdout' = Append(stdout, Say("WARNING: ERROR GROWTH DETECTED", <<>>))
    /\ exitCode' = 1
    /\ pc' = "exited"
    /\ UNCHANGED <<file, handle, pos, steps, weights, fitted, slope,
                   intercept, saved>>

\* else: the label and the line "WARNING: ERROR GROWTH DETECTED"
VerdictGrowth ==
    /\ pc = "verdict"
    /\ ~AbsLess(slope, Threshold)
    /\ label' = [x |-> <<Len(steps), 2>>, y |-> Max(weights) + 1,
                 text |-> "WARNING: ERROR GROWTH DETECTED"]
    /\ stdout' = Append(stdout, Say("WARNING: ERROR GROWTH DETECTED", <<>>))
    /\ pc' = "savefig"
    /\ UNCHANGED <<file, handle, pos, steps, weights, exitCode, fitted,
                   slope, intercept, saved>>

\* the end of main without the image write
SaveFig_NoWrite ==
    /\ pc = "savefig"
    /\ stdout' = Append(stdout, Say("Saved chart to error_stability_proof.png", <<>>))
    /\ exitCode' = 0
    /\ pc' = "exited"
    /\ UNCHANGED <<file, handle, pos, steps, weights, fitted, slope,
                   intercept, label, saved>>

\* plt.savefig(output_file, dpi=300); print(f"Saved chart to {output_file}");
\* main returns and the process ends with status 0
SaveFig ==
    /\ pc = "savefig"
    /\ saved' = saved + 1
    /\ stdout' = Append(stdout, Say("Saved chart to error_stability_proof.png", <<>>))
    /\ exitCode' = 0
    /\ pc' = "exited"
    /\ UNCHANGED <<file, handle, pos, steps, weights, fitted, slope,
                   intercept, label>>

\* an exception nobody catches leaves main: traceback, exit status 1
UncaughtExit ==
    /\ pc = "raised"
    /\ exitCode' = 1
    /\ pc' = "exited"
    /\ UNCHANGED <<file, handle, pos, steps, weights, stdout, fitted, slope,
                   intercept, label, saved>>

(***************************************************************************)
(* Specification of parse_data alone, over every file of at most           *)
(* MaxFileLen characters of Alphabet.                                      *)
(***************************************************************************)
RECURSIVE Texts(_)
Texts(n) ==
    IF n = 0
    THEN {<<>>}
    ELSE LET shorter == Texts(n - 1)
         IN  shorter \cup {Append(t, c) : t \in {u \in shorter : Len(u) = n - 1},
                                          c \in Alphabet}

InitMain ==
    /\ stdout = <<>>
    /\ exitCode = -1
    /\ fitted = "none"
    /\ slope = NaN
    /\ intercept = NaN
    /\ label = NoLabel
    /\ saved = 0

InitParse ==
    /\ file \in Texts(MaxFileLen)
    /\ pc = "open"
    /\ handle = "none"
    /\ pos = 0
    /\ steps = <<>>
    /\ weights = <<>>
    /\ InitMain

NextParse == OpenFile \/ OpenFail \/ ReadLine \/ ReadError \/ EndLoop

SpecParse == InitParse /\ [][NextParse]_vars

(***************************************************************************)
(* Specification of the program, over the files of at most MaxLines lines  *)
(* taken from InputLines, each ended by a newline.                         *)
(***************************************************************************)
InputLines ==
    { <<"0", ",", "0">>,
      <<"0", ",", "1">>,
      <<"1", "0", "0", ",", "0">>,
      <<"1", "0", "0", ",", "1">>,
      <<"2", "0", "0", ",", "1">>,
      <<" ", "5", ",", "1", "0", " ">>,
      <<"-", "1", ",", "2">>,
      <<"h", "i">> }

RECURSIVE Files(_)
Files(n) ==
    IF n = 0
    THEN {<<>>}
    ELSE LET shorter == Files(n - 1)
         IN  shorter \cup {f \o l \o <<NL>> : f \in shorter, l \in InputLines}

Init ==
    /\ file \in Files(MaxLines)
    /\ pc = "start"
    /\ handle = "none"
    /\ pos = 0
    /\ steps = <<>>
    /\ weights = <<>>
    /\ InitMain

Next ==
    \/ PrintParsing
    \/ OpenFile \/ OpenFail \/ ReadLine \/ ReadError \/ EndLoop
    \/ NoData \/ PrintFound
    \/ Linregress \/ LinregressNaN \/ LinregressRaise
    \/ PrintTrend \/ VerdictStable \/ VerdictGrowth \/ SaveFig
    \/ UncaughtExit

Spec == Init /\ [][Next]_vars

(***************************************************************************)
(* What the claims speak of, stated on the file itself: the lines of the   *)
(* file as index ranges, and the shape "digits, comma, digits" between     *)
(* surrounding whitespace.                                                 *)
(***************************************************************************)
LineStarts(f) == {a \in 1..Len(f) : a = 1 \/ f[a - 1] = NL}

\* index of the last character of the line that starts at a
LineLast(f, a) ==
    CHOOSE b \in a..Len(f) :
        /\ b = Len(f) \/ f[b] = NL
        /\ \A i \in a..(b - 1) : f[i] # NL

\* the line a..b is whitespace, digits p..k-1, a comma at k, digits k+1..q,
\* whitespace
PairShape(f, a, b, p, k, q) ==
    /\ a <= p /\ p < k /\ k < q /\ q <= b
    /\ f[k] = ","
    /\ \A i \in a..(p - 1) : f[i] \in Whitespace
    /\ \A i \in p..(k - 1) : f[i] \in Digits
    /\ \A i \in (k + 1)..q : f[i] \in Digits
    /\ \A i \in (q + 1)..b : f[i] \in Whitespace

IsPairLine(f, a) ==
    LET b == LineLast(f, a)
    IN  \E k \in a..b : \E p \in a..k, q \in k..b : PairShape(f, a, b, p, k, q)

RECURSIVE Pow10(_)
Pow10(n) == IF n = 0 THEN 1 ELSE 10 * Pow10(n - 1)

\* decimal value of the digits f[i..j]
RECURSIVE DecimalValue(_, _, _)
DecimalValue(f, i, j) ==
    IF i > j THEN 0
    ELSE DigitVal(f[i]) * Pow10(j - i) + DecimalValue(f, i + 1, j)

\* the <<step, weight>> written on the matching line that starts at a
PairOfLine(f, a) ==
    LET b == LineLast(f, a)
        k == CHOOSE k \in a..b :
                 \E p \in a..k, q \in k..b : PairShape(f, a, b, p, k, q)
        p == CHOOSE p \in a..k : \E q \in k..b : PairShape(f, a, b, p, k, q)
        q == CHOOSE q \in k..b : PairShape(f, a, b, p, k, q)
    IN  <<DecimalValue(f, p, k - 1), DecimalValue(f, k + 1, q)>>

MatchingLines(f) == {a \in LineStarts(f) : IsPairLine(f, a)}

\* how many matching lines start at or before a
Rank(f, a) == Cardinality({c \in MatchingLines(f) : c <= a})

\* C1: when parse_data returns, the series has one sample per line of the
\* file that is digits, a comma, digits between optional whitespace, and no
\* other: its length is the number of such lines, and the k-th sample holds
\* the decimal values of the two digit runs of the k-th such line.
C1_OneSamplePerMatchingLine ==
    pc = "returned" =>
        LET m == MatchingLines(file)
        IN  /\ Len(steps) = Cardinality(m)
            /\ Len(weights) = Cardinality(m)
            /\ \A a \in m :
                   /\ steps[Rank(file, a)] = PairOfLine(file, a)[1]
                   /\ weights[Rank(file, a)] = PairOfLine(file, a)[2]

\* parse_data returned on a file with a matching line that needed trimming,
\* a line that does not match and a two-digit number
C1_Witness ==
    /\ pc = "returned"
    /\ Len(steps) = 1
    /\ Cardinality(LineStarts(file)) = 2
    /\ \E a \in MatchingLines(file) : file[a] = " "
    /\ steps[1] > 9

\* C2: parse_data keeps the order of the file: of two matching lines, the
\* sample of the earlier one stands before the sample of the later one in
\* steps and in weights, whatever lines lie between them.
C2_FileOrderPreserved ==
    pc = "returned" =>
        \A a, b \in MatchingLines(file) :
            a < b =>
                \E i, j \in 1..Len(steps) :
                    /\ i < j
                    /\ j <= Len(weights)
                    /\ <<steps[i], weights[i]>> = PairOfLine(file, a)
                    /\ <<steps[j], weights[j]>> = PairOfLine(file, b)

\* parse_data returned two different samples read from two matching lines
\* with a line that does not match between them
C2_Witness ==
    /\ pc = "returned"
    /\ Len(steps) = 2
    /\ <<steps[1], weights[1]>> # <<steps[2], weights[2]>>
    /\ \E a, b \in MatchingLines(file) :
           \E c \in LineStarts(file) \ MatchingLines(file) : a < c /\ c < b

\* C8: parse_data is never left with the handle open, neither when it
\* returns nor when an error raised while reading leaves it.
C8_HandleClosedOnExit ==
    pc \in {"returned", "raised"} => handle # "open"

\* an error was raised in the middle of the file, after a sample was read,
\* and the handle is closed
C8_Witness ==
    /\ pc = "raised"
    /\ pos > 0
    /\ pos < Len(file)
    /\ steps # <<>>
    /\ handle = "closed"

(***************************************************************************)
(* Claims about main.                                                      *)
(***************************************************************************)
Msgs(out) == [i \in 1..Len(out) |-> out[i].msg]

VerdictTexts == {"CONCLUSION: STABLE RECURSION", "WARNING: ERROR GROWTH DETECTED"}

\* the whole file was read: parse_data came to the end of it and returned
FileRead == handle = "closed" /\ pos = Len(file)

\* C3: when no line of the file matches (an empty file included), the run
\* prints "No CSV data found in raw_output.txt" after the parsing notice
\* and ends with exit code 1, and no regression is ever computed.
C3_NoDataExitsOne ==
    MatchingLines(file) = {} =>
        /\ fitted = "none"
        /\ pc \notin {"linregress", "print_trend", "verdict", "savefig"}
        /\ (pc = "exited" /\ FileRead) =>
               /\ Msgs(stdout) = <<"Parsing data...",
                                   "No CSV data found in raw_output.txt">>
               /\ exitCode = 1

\* the run ended on a file that has lines but none that matches
C3_Witness ==
    /\ pc = "exited"
    /\ FileRead
    /\ Len(file) > 0
    /\ MatchingLines(file) = {}
    /\ exitCode = 1

\* C4: linregress is only ever reached with two points or more.
C4_RegressionNeedsTwoPoints ==
    (pc = "linregress" \/ fitted # "none") =>
        /\ Len(steps) = Len(weights)
        /\ Len(steps) >= 2

\* C5 as claimed: a successful run prints the parsing notice, the count,
\* the slope, the intercept, the output file path and then the verdict.
C5_PathBeforeVerdict ==
    exitCode = 0 =>
        \E v \in VerdictTexts :
            Msgs(stdout) = <<"Parsing data...", "Found data points", "Slope",
                             "Intercept",
                             "Saved chart to error_stability_proof.png", v>>

\* C5 as amended: a successful run prints the parsing notice, the count of
\* points, the slope, the intercept, the verdict and then the output file
\* path: the verdict line comes before the path line.
C5_VerdictBeforePath ==
    exitCode = 0 =>
        /\ \E v \in VerdictTexts :
               Msgs(stdout) = <<"Parsing data...", "Found data points", "Slope",
                                "Intercept", v,
                                "Saved chart to error_stability_proof.png">>
        /\ stdout[2].arg = <<Len(steps)>>
        /\ stdout[3].arg = slope
        /\ stdout[4].arg = intercept

\* a run on three samples ended with status 0
C5_Witness ==
    /\ exitCode = 0
    /\ fitted = "ok"
    /\ Len(steps) = 3
    /\ Len(stdout) = 6

\* the slope is a number whose magnitude is below one hundredth
SlopeBelowHundredth ==
    /\ slope[2] > 0
    /\ 0 - slope[2] < 100 * slope[1]
    /\ 100 * slope[1] < slope[2]

VerdictsPrinted == {i \in 1..Len(stdout) : stdout[i].msg \in VerdictTexts}

\* C6: the verdict depends on the magnitude of the slope alone, with a
\* strict threshold: the label and the printed line are the STABLE text
\* exactly when |slope| < 0.01 and the GROWTH text otherwise (so also at
\* |slope| = 0.01), and a successful run carries exactly one verdict line.
C6_StrictThreshold ==
    /\ label # NoLabel =>
           /\ label.text = (IF SlopeBelowHundredth
                            THEN "CONCLUSION: STABLE RECURSION"
                            ELSE "WARNING: ERROR GROWTH DETECTED")
           /\ Cardinality(VerdictsPrinted) = 1
           /\ \A i \in VerdictsPrinted : stdout[i].msg = label.text
    /\ label = NoLabel => VerdictsPrinted = {}
    /\ exitCode = 0 => label # NoLabel

\* a slope of exactly -0.01 was classified as growth
C6_Witness ==
    /\ label.text = "WARNING: ERROR GROWTH DETECTED"
    /\ slope[1] < 0
    /\ 0 - 100 * slope[1] = slope[2]

\* the samples determine a regression line: two or more, not all at one step
WellDefined ==
    /\ Len(steps) >= 2
    /\ \E i, j \in 1..Len(steps) : steps[i] # steps[j]

NoDataPath ==
    /\ stdout # <<>>
    /\ stdout[Len(stdout)].msg = "No CSV data found in raw_output.txt"

C9_WrittenOnEveryRun ==
    (pc = "exited" /\ FileRead) => saved = 1

\* C9 as amended: the image is written exactly once by every run that ends
\* with exit code 0, after the regression, and not at all by a run that
\* ends on the zero-data path or on an error; no run writes it twice.
C9_WrittenOnSuccessOnly ==
    /\ saved <= 1
    /\ saved = 1 => fitted \in {"ok", "nan"}
    /\ pc = "exited" => (saved = 1 <=> exitCode = 0)
    /\ (pc = "exited" /\ NoDataPath) => saved = 0

\* a run ended having written the image once
C9_Witness ==
    /\ pc = "exited"
    /\ FileRead
    /\ saved = 1

Min(s) == CHOOSE m \in {s[i] : i \in 1..Len(s)} : \A i \in 1..Len(s) : m <= s[i]

\* C10: the verdict label stands at x = (min(steps) + max(steps)) / 2 and
\* y = max(weights) + 1.
C10_LabelAtMidpoint ==
    label # NoLabel =>
        /\ 2 * label.x[1] = (Min(steps) + Max(steps)) * label.x[2]
        /\ label.y = Max(weights) + 1

====
